---------------------------- MODULE Spec2Model ----------------------------
(***************************************************************************)
(* The Streamlit script 程序APP.py as a state machine.                     *)
(*                                                                         *)
(* One script run is the sequence load_model -> input form -> button ->    *)
(* prediction -> SHAP explanation -> reference guide and footer.  A run is *)
(* started by the session connecting or refreshing (Rerun), by a widget    *)
(* changing (SetWidget) or by the button being clicked (ClickButton).      *)
(*                                                                         *)
(* Numbers: slider values are kept in tenths (0.2 is 2), probabilities as  *)
(* multiples of 1/ProbScale, percentages in units of 1/ProbScale percent,  *)
(* SHAP values in hundredths.  Python's 0-based indices are kept through   *)
(* Idx.  Display strings are given in English, the source's text is in the *)
(* comment next to each.                                                   *)
(***************************************************************************)
EXTENDS Integers, Sequences, FiniteSets, TLC

VARIABLES
    diskClasses,         \* classes_ of the artifact rf_model.pkl on disk
    cache,               \* st.cache_resource entry of load_model: None or Some(classes_)
    loads,               \* number of joblib.load calls made so far
    widgets,             \* session widget state: feature key -> value
    clicked,             \* value st.button returns in the current run
    pc,                  \* position of the script run ("idle": no run in progress)
    run_end,             \* how the last run ended: "none", "done", "stopped", "aborted"
    model,               \* script variable model (line 49): None or Some(classes_)
    formRendered,        \* the input form is on the page
    feature_values,      \* script variable feature_values (line 126)
    predict_outcome,     \* what model.predict_proba did in this run: None or Some(outcome)
    result,              \* the result card on the page: None or Some(record)
    errorShown,          \* the st.error message on the page: None or Some(message)
    shap_values,         \* script variable shap_values (line 263): None or Some(Explanation)
    current_shap_values, \* script variable current_shap_values (lines 266-271)
    chart,               \* the bar chart on the page: None or Some(record)
    tailRendered         \* the reference guide and the footer are on the page

vars == <<diskClasses, cache, loads, widgets, clicked, pc, run_end, model,
          formRendered, feature_values, predict_outcome, result, errorShown,
          shap_values, current_shap_values, chart, tailRendered>>

---------------------------------------------------------------------------
\* Bounds of the model.

\* Probabilities returned by the classifier are multiples of 1/ProbScale.
ProbScale == 4

\* joblib.load is attempted at most this many times.
MaxLoads == 3

---------------------------------------------------------------------------
\* Helpers.

None == <<>>
Some(x) == <<x>>
IsSome(o) == o # <<>>
The(o) == o[1]

\* seq[i] of Python, 0-based.
Idx(seq, i) == seq[i + 1]

Range(seq) == {seq[i] : i \in 1..Len(seq)}


---------------------------------------------------------------------------
\* Program data.

\* feature_ranges (lines 52-94).  Numerical min, max and default in tenths.
\* display_name: 分子亚型, 中性粒细胞/淋巴细胞比, 白介素6, C反应蛋白/白蛋白,
\* 维生素D, 游离甲状腺素.
feature_ranges ==
    [ Subtype |-> [type |-> "categorical", options |-> <<0, 1, 2>>,
                   min |-> 0, max |-> 2, default |-> 0,
                   display_name |-> "molecular subtype"],
      NLR     |-> [type |-> "numerical", options |-> <<>>,
                   min |-> 0, max |-> 100, default |-> 50,
                   display_name |-> "neutrophil/lymphocyte ratio"],
      IL6     |-> [type |-> "numerical", options |-> <<>>,
                   min |-> 0, max |-> 1000, default |-> 50,
                   display_name |-> "interleukin 6"],
      CAR     |-> [type |-> "numerical", options |-> <<>>,
                   min |-> 0, max |-> 50, default |-> 2,
                   display_name |-> "C-reactive protein/albumin"],
      VitD    |-> [type |-> "numerical", options |-> <<>>,
                   min |-> 0, max |-> 1000, default |-> 350,
                   display_name |-> "vitamin D"],
      FT4     |-> [type |-> "numerical", options |-> <<>>,
                   min |-> 0, max |-> 1000, default |-> 150,
                   display_name |-> "free thyroxine"] ]

\* feature_ranges.keys(): a dict keeps its insertion order.
FeatureKeys == <<"Subtype", "NLR", "IL6", "CAR", "VitD", "FT4">>

\* The values a user is taken to give a widget: every option of the selectbox
\* (line 133), the default and the maximum of a slider (lines 143-145).
WidgetValues(f) ==
    IF feature_ranges[f].type = "categorical"
    THEN Range(feature_ranges[f].options)
    ELSE {feature_ranges[f].default, feature_ranges[f].max}

\* What the widgets show before the user touches them: a selectbox its first
\* option, a slider its value= argument.
WidgetDefaults ==
    [f \in Range(FeatureKeys) |->
        IF feature_ranges[f].type = "categorical"
        THEN Idx(feature_ranges[f].options, 0)
        ELSE feature_ranges[f].default]

\* Lines 126-193: one append per widget, in the order the widgets are written.
\* (AssembleSwapped: the appends of IL6 and CAR exchanged.)
AssembleSwapped(w) ==
    <<w["Subtype"], w["NLR"], w["CAR"], w["IL6"], w["VitD"], w["FT4"]>>
AssembleFeatureValues(w) ==
    <<w["Subtype"], w["NLR"], w["IL6"], w["CAR"], w["VitD"], w["FT4"]>>

\* Line 43: model.classes_.tolist() != [0, 1] is the failure.
\* (ClassesValidAnyOrder: the labels compared as a set.)
ClassesValidAnyOrder(classes) == Range(classes) = {0, 1}
ClassesValid(classes) == classes = <<0, 1>>

\* The artifacts rf_model.pkl may hold: the expected one, one trained with the
\* labels swapped, a three-class one.
DiskArtifacts == {<<0, 1>>, <<1, 0>>, <<0, 1, 2>>}

\* @st.cache_resource (line 39): a stored entry is returned without calling
\* the function.
\* (CacheNeverHits: the function without the decorator.)
CacheNeverHits(c) == FALSE
CacheHit(c) == IsSome(c)

\* Line 206 and 207: the factor 100; line 208: the threshold 50.
Percent == 100
Threshold == 50

\* model.predict_proba(features)[0] (line 202): the call raises, or returns one
\* probability per class of the classifier, the probabilities summing to one.
\* A width other than two is what line 203 guards against.
ClassifierOutcomes ==
    {[raises |-> TRUE, proba |-> <<>>]}
    \cup {[raises |-> FALSE, proba |-> <<ProbScale - p, p>>] : p \in 0..ProbScale}
    \cup {[raises |-> FALSE, proba |-> <<ProbScale>>]}
    \cup {[raises |-> FALSE, proba |-> <<ProbScale - 2, 1, 1>>]}

\* Line 206.
ProbabilityPositive(proba) == Idx(proba, 1) * Percent

\* Line 207.
\* (ProbabilityNegativeWrongIndex: index 1 read twice.)
ProbabilityNegativeWrongIndex(proba) == Idx(proba, 1) * Percent
ProbabilityNegative(proba) == Idx(proba, 0) * Percent

\* Line 208: 1 if probability_positive >= 50 else 0.
\* (PredictedClassStrict: > in place of >=.)
PredictedClassStrict(pp) == IF pp > Threshold * ProbScale THEN 1 ELSE 0
PredictedClass(pp) == IF pp >= Threshold * ProbScale THEN 1 ELSE 0

\* Line 209: 高风险 / 低风险.
PredictedLabel(cls) == IF cls = 1 THEN "high-risk" ELSE "low-risk"

\* Line 246: 建议立即启动心理干预流程 / 建议定期随访观察.
Advice(cls) ==
    IF cls = 1 THEN "start psychological intervention" ELSE "regular follow-up"

\* Lines 206-250: the result card.
PredictionResult(proba) ==
    LET pp == ProbabilityPositive(proba)
        cls == PredictedClass(pp)
    IN  [probability_positive |-> pp,
         probability_negative |-> ProbabilityNegative(proba),
         predicted_class |-> cls,
         predicted_label |-> PredictedLabel(cls),
         high_risk_style |-> (cls = 1),
         advice |-> Advice(cls)]

\* Lines 252-254: the handler reports and calls st.stop(), which ends the run.
\* (ExceptHandlerFallsThrough: the handler without st.stop().)
ExceptHandlerFallsThrough == "explain"
ExceptHandlerPc == "idle"


---------------------------------------------------------------------------
\* The explanation (lines 256-315).

\* SHAP values the backend may attribute to a feature for class 1, in
\* hundredths: one negative, zero, one positive.
Scores == {-30, 0, 10}

\* The attributions the backend is taken to return, feature key -> class-1
\* value: one feature set apart from the five others.
BackendOutputs ==
    {[f \in Range(FeatureKeys) |-> IF f = k THEN s ELSE t] :
        k \in Range(FeatureKeys), s \in Scores, t \in Scores}

\* pd.DataFrame([feature_values], columns=feature_ranges.keys()) (line 261).
SampleData(values) == [columns |-> FeatureKeys, row |-> values]

\* explainer(sample_data) (lines 262-263): one entry per column of the frame,
\* in the frame's order.  Of rank 3 (sample, feature, class) the entry holds
\* the class-0 and the class-1 value, which for a two-class model are
\* negatives of each other; of rank 2 (sample, feature) it is one value.
Explanation(sample_data, scores, rank) ==
    [rank |-> rank,
     feature_names |-> sample_data.columns,
     data |-> sample_data.row,
     values |-> [i \in 1..Len(sample_data.columns) |->
                    LET s == scores[sample_data.columns[i]]
                    IN  IF rank = 3 THEN <<-s, s>> ELSE s]]

\* shap_values[0, :, c].values: three indices.  An array of a lower rank has
\* no third axis and the read raises IndexError (None).
IndexClassAxis(sv, c) ==
    IF sv.rank < 3
    THEN None
    ELSE Some([i \in 1..Len(sv.values) |-> Idx(sv.values[i], c)])

\* Lines 266-269.
SelectAxis(sv, predicted_class) ==
    IF sv.rank = 3
    THEN IndexClassAxis(sv, predicted_class)
    ELSE IndexClassAxis(sv, 1)

\* Line 271.
Negate(vals) == [i \in 1..Len(vals) |-> -vals[i]]

\* Line 278: '#ff6b6b' if val > 0 else '#4CAF50'.
\* (BarColorZeroRed: >= in place of >.)
BarColorZeroRed(val) == IF val >= 0 THEN "#ff6b6b" ELSE "#4CAF50"
BarColor(val) == IF val > 0 THEN "#ff6b6b" ELSE "#4CAF50"

\* Lines 282-288: the text of one bar (0.2 is 20 hundredths).
BarLabel(val, name) ==
    [name |-> name,
     value |-> val,
     ha |-> IF val < 0 THEN "left" ELSE "right",
     color |-> IF (IF val < 0 THEN -val ELSE val) > 20 THEN "white" ELSE "#666"]

\* Lines 274-315: bar i is drawn at y_pos[i] = i for current_shap_values[i],
\* named after the i-th key of feature_ranges.  Caption (lines 311-315):
\* 红色特征：增加阈下抑郁风险的因素（SHAP值 > 0）, 蓝色特征：降低风险的保护性因素
\* （SHAP值 < 0）.
Chart(vals) ==
    [y_pos |-> [i \in 1..Len(FeatureKeys) |-> i - 1],
     widths |-> vals,
     colors |-> [i \in 1..Len(vals) |-> BarColor(vals[i])],
     labels |-> [i \in 1..Len(FeatureKeys) |->
                    BarLabel(vals[i], feature_ranges[FeatureKeys[i]].display_name)],
     caption |-> [red |-> "raises risk (SHAP > 0)",
                  other |-> "lowers risk (SHAP < 0)"]]

---------------------------------------------------------------------------
\* The state machine.

Init ==
    /\ diskClasses \in DiskArtifacts
    /\ cache = None
    /\ loads = 0
    /\ widgets = WidgetDefaults
    /\ clicked = FALSE
    /\ pc = "idle"
    /\ run_end = "none"
    /\ model = None
    /\ formRendered = FALSE
    /\ feature_values = <<>>
    /\ predict_outcome = None
    /\ result = None
    /\ errorShown = None
    /\ shap_values = None
    /\ current_shap_values = <<>>
    /\ chart = None
    /\ tailRendered = FALSE

\* A run starts from the top of the script: the page is emptied and every
\* script variable is unbound; the session's widget state and the resource
\* cache survive.
StartRun(w, c) ==
    /\ pc = "idle"
    /\ widgets' = w
    /\ clicked' = c
    /\ pc' = "load"
    /\ run_end' = "none"
    /\ model' = None
    /\ formRendered' = FALSE
    /\ feature_values' = <<>>
    /\ predict_outcome' = None
    /\ result' = None
    /\ errorShown' = None
    /\ shap_values' = None
    /\ current_shap_values' = <<>>
    /\ chart' = None
    /\ tailRendered' = FALSE
    /\ UNCHANGED <<diskClasses, cache, loads>>

\* The session connects, or the page is refreshed.
Rerun == StartRun(widgets, FALSE)

\* The user moves one widget of the form on the page (lines 131-192).
SetWidget ==
    /\ formRendered
    /\ \E f \in Range(FeatureKeys) : \E v \in WidgetValues(f) :
          /\ v # widgets[f]
          /\ StartRun([widgets EXCEPT ![f] = v], FALSE)

\* The user clicks the button of the form on the page (line 198).
ClickButton ==
    /\ formRendered
    /\ StartRun(widgets, TRUE)

\* Lines 39-49: model = load_model().
LoadModel ==
    /\ pc = "load"
    /\ \/ /\ CacheHit(cache)
          /\ model' = cache
          /\ pc' = "form"
          /\ UNCHANGED <<cache, loads, errorShown, run_end>>
       \/ /\ ~CacheHit(cache)
          /\ loads < MaxLoads
          /\ ClassesValid(diskClasses)
          /\ loads' = loads + 1
          /\ cache' = Some(diskClasses)
          /\ model' = Some(diskClasses)
          /\ pc' = "form"
          /\ UNCHANGED <<errorShown, run_end>>
       \/ /\ ~CacheHit(cache)
          /\ loads < MaxLoads
          /\ ~ClassesValid(diskClasses)
          /\ loads' = loads + 1
          \* 模型类别定义异常，请确认训练标签顺序应为[0, 1]！ then st.stop():
          \* nothing is returned, nothing is stored in the cache.
          /\ errorShown' = Some("model classes must be [0, 1]")
          /\ pc' = "idle"
          /\ run_end' = "stopped"
          /\ UNCHANGED <<cache, model>>
    /\ UNCHANGED <<diskClasses, widgets, clicked, formRendered, feature_values,
                   predict_outcome, result, shap_values, current_shap_values,
                   chart, tailRendered>>

\* Lines 121-195: the form.
RenderForm ==
    /\ pc = "form"
    /\ feature_values' = AssembleFeatureValues(widgets)
    /\ formRendered' = TRUE
    /\ pc' = "button"
    /\ UNCHANGED <<diskClasses, cache, loads, widgets, clicked, run_end, model,
                   predict_outcome, result, errorShown, shap_values,
                   current_shap_values, chart, tailRendered>>

\* Line 198, the button not clicked in this run: on to line 317.
NoSubmit ==
    /\ pc = "button"
    /\ ~clicked
    /\ pc' = "guide"
    /\ UNCHANGED <<diskClasses, cache, loads, widgets, clicked, run_end, model,
                   formRendered, feature_values, predict_outcome, result,
                   errorShown, shap_values, current_shap_values, chart,
                   tailRendered>>

\* Lines 198-254: the prediction.
Predict ==
    /\ pc = "button"
    /\ clicked
    /\ \E out \in ClassifierOutcomes :
          /\ predict_outcome' = Some(out)
          /\ \/ /\ ~out.raises
                /\ Len(out.proba) = 2
                /\ result' = Some(PredictionResult(out.proba))
                /\ pc' = "explain"
                /\ UNCHANGED <<errorShown, run_end>>
             \/ /\ out.raises \/ Len(out.proba) # 2
                \* 预测过程出现异常：..., then st.stop()
                /\ errorShown' = Some("prediction failed")
                /\ pc' = ExceptHandlerPc
                /\ run_end' = IF ExceptHandlerPc = "idle" THEN "stopped" ELSE run_end
                /\ UNCHANGED result
    /\ UNCHANGED <<diskClasses, cache, loads, widgets, clicked, model,
                   formRendered, feature_values, shap_values,
                   current_shap_values, chart, tailRendered>>

\* Lines 256-315: the explanation.  Nothing catches an exception here: the
\* run is aborted where it is raised.
Explain ==
    /\ pc = "explain"
    /\ \/ \* the explainer or the plotting raises
          /\ pc' = "idle"
          /\ run_end' = "aborted"
          /\ UNCHANGED <<shap_values, current_shap_values, chart>>
       \/ \E scores \in BackendOutputs : \E rank \in {2, 3} :
             LET sv == Explanation(SampleData(feature_values), scores, rank)
                 axis == SelectAxis(sv, The(result).predicted_class)
             IN  /\ shap_values' = Some(sv)
                 /\ IF IsSome(axis)
                    THEN /\ current_shap_values' = Negate(The(axis))
                         /\ chart' = Some(Chart(Negate(The(axis))))
                         /\ pc' = "guide"
                         /\ UNCHANGED run_end
                    ELSE /\ pc' = "idle"
                         /\ run_end' = "aborted"
                         /\ UNCHANGED <<current_shap_values, chart>>
    /\ UNCHANGED <<diskClasses, cache, loads, widgets, clicked, model,
                   formRendered, feature_values, predict_outcome, result,
                   errorShown, tailRendered>>

\* Lines 317-340: the reference guide and the footer; the run ends.
RenderTail ==
    /\ pc = "guide"
    /\ tailRendered' = TRUE
    /\ pc' = "idle"
    /\ run_end' = "done"
    /\ UNCHANGED <<diskClasses, cache, loads, widgets, clicked, model,
                   formRendered, feature_values, predict_outcome, result,
                   errorShown, shap_values, current_shap_values, chart>>

Next ==
    \/ Rerun
    \/ SetWidget
    \/ ClickButton
    \/ LoadModel
    \/ RenderForm
    \/ NoSubmit
    \/ Predict
    \/ Explain
    \/ RenderTail

Spec == Init /\ [][Next]_vars


---------------------------------------------------------------------------
\* Properties.

\* The canonical feature order as the specification words it.
CanonicalOrder == <<"Subtype", "NLR", "IL6", "CAR", "VitD", "FT4">>

\* The classifier returned exactly two probabilities in this run.
TwoProbabilities ==
    /\ IsSome(predict_outcome)
    /\ ~The(predict_outcome).raises
    /\ Len(The(predict_outcome).proba) = 2

\* The prediction of this run failed: the classifier raised, or returned a
\* number of probabilities other than two.
PredictionFailed ==
    /\ IsSome(predict_outcome)
    /\ The(predict_outcome).raises \/ Len(The(predict_outcome).proba) # 2

\* C1: whenever the classifier returned exactly two probabilities, a result
\* is shown whose class is 1 (label high-risk) if and only if the index-1
\* probability times 100 is at least 50, and 0 (label low-risk) otherwise; a
\* probability of exactly one half gives class 1.
C1_ThresholdDecidesClass ==
    TwoProbabilities =>
        /\ IsSome(result)
        /\ LET p1 == Idx(The(predict_outcome).proba, 1)
               r == The(result)
           IN  /\ r.predicted_class \in {0, 1}
               /\ r.predicted_class = 1 <=> 2 * p1 >= ProbScale
               /\ r.predicted_class = 1 <=> r.probability_positive >= 50 * ProbScale
               /\ r.predicted_label = "high-risk" <=> r.predicted_class = 1
               /\ r.predicted_label = "low-risk" <=> r.predicted_class = 0

\* C1, its case: a result for a positive probability of exactly 50 percent,
\* shown as class 1, high-risk.
C1_Witness ==
    /\ TwoProbabilities
    /\ IsSome(result)
    /\ 2 * Idx(The(predict_outcome).proba, 1) = ProbScale
    /\ The(result).predicted_class = 1
    /\ The(result).predicted_label = "high-risk"

\* C2: the explanation is reached only in a run whose prediction completed
\* without an exception; when the classifier raises or returns a number of
\* probabilities other than two, the error is reported, no result is shown
\* and the explanation is never reached in that run.
C2_ExplainOnlyAfterPrediction ==
    /\ (pc = "explain" \/ IsSome(shap_values) \/ IsSome(chart)
            \/ Len(current_shap_values) > 0 \/ run_end = "aborted")
        => (TwoProbabilities /\ IsSome(result) /\ errorShown = None)
    /\ PredictionFailed
        => /\ errorShown = Some("prediction failed")
           /\ result = None
           /\ pc = "idle"
           /\ run_end = "stopped"
           /\ shap_values = None
           /\ chart = None
           /\ ~tailRendered

\* C2, its case: the classifier returned three probabilities, the error is on
\* the page and the run has stopped short of the explanation.
C2_Witness ==
    /\ IsSome(predict_outcome)
    /\ Len(The(predict_outcome).proba) = 3
    /\ errorShown = Some("prediction failed")
    /\ result = None
    /\ run_end = "stopped"

\* C3: a classifier whose class labels are not exactly [0, 1] makes load_model
\* report the error and stop the run before the form is rendered and before
\* any prediction; no state has a form or a prediction with such a classifier.
C3_InvalidClassifierNeverServes ==
    /\ (formRendered \/ IsSome(predict_outcome) \/ IsSome(result)
            \/ pc \in {"form", "button", "explain", "guide"})
        => model = Some(<<0, 1>>)
    /\ IsSome(model) => The(model) = <<0, 1>>
    /\ diskClasses # <<0, 1>>
        => /\ cache = None
           /\ model = None
           /\ pc \in {"idle", "load"}
           /\ ~formRendered
           /\ result = None
           /\ run_end \in {"none", "stopped"}
           /\ run_end = "stopped" => errorShown = Some("model classes must be [0, 1]")

\* C3, its case: the artifact has the labels [1, 0], the run was stopped with
\* the error on the page and without a form.
C3_Witness ==
    /\ diskClasses = <<1, 0>>
    /\ loads > 0
    /\ pc = "idle"
    /\ run_end = "stopped"
    /\ IsSome(errorShown)
    /\ ~formRendered

\* C4: a failure of the explanation after the prediction was shown is soft:
\* the result stays on the page, only the explanation is missing from the
\* page (the reference guide and the footer are there), and the form is
\* ready for another submission.
C4_ExplanationFailureIsSoft ==
    (pc = "idle" /\ IsSome(result) /\ chart = None)
        => /\ formRendered
           /\ tailRendered
           /\ run_end = "done"

\* C5: for both predicted classes, a feature whose displayed (sign-flipped)
\* score is positive has a positive backend contribution to the class-1
\* probability, and one whose displayed score is negative a negative one.
C5_PositiveMeansRiskIncreasing ==
    IsSome(chart) =>
        \A i \in 1..Len(current_shap_values) :
            LET class1 == Idx(The(shap_values).values[i], 1)
            IN  /\ current_shap_values[i] > 0 => class1 > 0
                /\ current_shap_values[i] < 0 => class1 < 0

C7_ProbabilitiesSumTo100 ==
    IsSome(result) =>
        LET r == The(result)
            proba == The(predict_outcome).proba
        IN  /\ r.probability_positive = 100 * Idx(proba, 1)
            /\ r.probability_negative = 100 * Idx(proba, 0)
            /\ r.probability_positive + r.probability_negative = 100 * ProbScale

\* C7, its case: a result with two different, non-zero percentages.
C7_Witness ==
    /\ IsSome(result)
    /\ The(result).probability_positive > 0
    /\ The(result).probability_negative > 0
    /\ The(result).probability_positive # The(result).probability_negative

\* C8: the feature vector holds the six widget values in the canonical order;
\* the attribution vector has six entries, entry i, its column label, its
\* row value and its displayed name being those of the i-th feature of that
\* order, and the bars are drawn in that order, unsorted.
C8_CanonicalOrder ==
    /\ (formRendered \/ pc \in {"button", "explain", "guide"})
        => /\ Len(feature_values) = 6
           /\ \A i \in 1..6 : feature_values[i] = widgets[CanonicalOrder[i]]
    /\ IsSome(shap_values)
        => /\ The(shap_values).feature_names = CanonicalOrder
           /\ Len(The(shap_values).values) = 6
           /\ \A i \in 1..6 : The(shap_values).data[i] = widgets[CanonicalOrder[i]]
    /\ IsSome(chart)
        => /\ Len(current_shap_values) = 6
           /\ The(chart).widths = current_shap_values
           /\ \A i \in 1..6 :
                /\ current_shap_values[i]
                     = -Idx(The(shap_values).values[i], The(result).predicted_class)
                /\ The(chart).y_pos[i] = i - 1
                /\ The(chart).labels[i].name
                     = feature_ranges[CanonicalOrder[i]].display_name
                /\ The(chart).labels[i].value = current_shap_values[i]

\* C8, its case: a chart for a vector in which the third and the fourth widget
\* were moved off their defaults, with bars that are not in order of size.
C8_Witness ==
    /\ IsSome(chart)
    /\ widgets["IL6"] = 1000
    /\ widgets["CAR"] = 50
    /\ feature_values[3] = 1000
    /\ feature_values[4] = 50
    /\ current_shap_values[1] = 0
    /\ current_shap_values[2] = 30
    /\ current_shap_values[3] = 0

\* C9: the axis is chosen by the shape of the backend's output, the axis of
\* the predicted class for rank 3 and the index-1 axis otherwise, and in both
\* cases the step yields one score per feature.
C9_AxisSelectionSucceeds ==
    IsSome(shap_values) =>
        /\ Len(current_shap_values) = 6
        /\ IsSome(chart)
        /\ The(shap_values).rank = 3 =>
              \A i \in 1..6 : current_shap_values[i]
                  = -Idx(The(shap_values).values[i], The(result).predicted_class)

=============================================================================
